---- MODULE Spec2Model ----
(***************************************************************************)
(* Model of the hydroponic plant-health prediction backend                 *)
(* (backend/main.py, backend/preprocessing.py).                            *)
(*                                                                         *)
(* Units.  pH is kept in tenths (pH 6.0 is 60); EC, water temperature and  *)
(* humidity are integers; class probabilities are percentages (0..100);    *)
(* the confidence of a report is the SUM of the three class probabilities, *)
(* i.e. the mean in units of 1/300 (confidence 1.0 is 300).                *)
(*                                                                         *)
(* A trained artefact (a predictor, the scaler, the metadata) is           *)
(* identified by the generation of the training run that produced it;      *)
(* 0 means "absent" (no file on disk, no key in self.models, scaler None). *)
(***************************************************************************)
EXTENDS Integers, Sequences, FiniteSets, TLC

VARIABLES
    disk,       \* the models directory: [pkl, json : target -> gen, scaler, metadata : gen]
    models,     \* ModelManager.models : target -> gen (0: key absent)
    scaler,     \* ModelManager.scaler : gen (0: None)
    metadata,   \* ModelManager.metadata : gen (0: {})
    loadRaised, \* whether the last load_models() raised
    gen,        \* generation of the latest training run
    clock,      \* datetime.now()
    req,        \* the last /predict request
    resp,       \* the response the last /predict request got
    oracle,     \* the last inference observed from the xgboost library
    used,       \* generations the last successful prediction read: member -> set of gen
    repeated,   \* whether the last request repeated the one before it on the same bundle
    pcLoad,     \* position of the background retrain task
    pcReq,      \* position of the in-flight /predict request
    xreq,       \* locals of the in-flight /predict request
    health,     \* the response the last GET /health got
    client,     \* test_api.py: its position and its last exchange with /predict
    simple,     \* a preprocessing.SimpleScaler object
    lastCall    \* the last call on the SimpleScaler: its name, its argument, the array returned

vars == <<disk, models, scaler, metadata, loadRaised, gen, clock, req, resp,
          oracle, used, repeated, pcLoad, pcReq, xreq, health, client, simple, lastCall>>

-----------------------------------------------------------------------------
(* Bounds of the model *)

MaxGen == 2
MaxClock == 1

-----------------------------------------------------------------------------
(* Constants of the program *)

\* main.py:131  for target in ['health', 'growth', 'nutrient', 'yield', 'disease']
Targets == <<"health", "growth", "nutrient", "yield", "disease">>
TargetSet == {Targets[i] : i \in 1..Len(Targets)}

\* main.py:116-122
VisualConditions == {"Healthy", "Yellowing", "Wilting", "Leaf Curling", "Spotting"}
visual_condition_map ==
    [v \in VisualConditions |->
        CASE v = "Healthy" -> 0
          [] v = "Yellowing" -> 1
          [] v = "Wilting" -> 2
          [] v = "Leaf Curling" -> 3
          [] v = "Spotting" -> 4]

\* main.py:33-36, the Field(ge=..., le=...) constraints of PredictionInput
PH_GE == 30
PH_LE == 90
EC_GE == 500
EC_LE == 3000
TEMP_GE == 5
TEMP_LE == 40
HUM_GE == 10
HUM_LE == 100

\* main.py:285-314, the bands of the environmental recommendations
PH_LOW == 55
PH_HIGH == 70
EC_LOW == 1200
EC_HIGH == 1800
TEMP_LOW == 18
TEMP_HIGH == 24
HUM_LOW == 50
HUM_HIGH == 80

\* main.py:317-319
DISEASE_HIGH == 70
DISEASE_MODERATE == 40

\* main.py:258-259
SCORE_MIN == 0
SCORE_MAX == 100

\* HTTP statuses: 422 is FastAPI's answer to a body that fails the schema
HTTP_OK == 200
HTTP_BAD_REQUEST == 400
HTTP_UNPROCESSABLE == 422
HTTP_INTERNAL == 500
HTTP_UNAVAILABLE == 503

-----------------------------------------------------------------------------
(* Request validation: PredictionInput *)

\* main.py:31-37.  visual_condition is declared `str`: any string passes.
Validate(data) ==
    /\ data.pH >= PH_GE /\ data.pH <= PH_LE
    /\ data.EC >= EC_GE /\ data.EC <= EC_LE
    /\ data.water_temp >= TEMP_GE /\ data.water_temp <= TEMP_LE
    /\ data.humidity >= HUM_GE /\ data.humidity <= HUM_LE

-----------------------------------------------------------------------------
(* preprocessing.SimpleScaler.  X is a matrix of integers, a sequence of     *)
(* rows; the statistics are kept exactly: a mean is num/den, a standard      *)
(* deviation is sqrt(sq)/den, a scaled value is num/(den*sqrt(root)).        *)

MaxRows == 2
MaxVal == 2

\* the columns of X: one that may be constant beside one that may vary
Columns == 1..2

RECURSIVE ColSum(_, _, _)
ColSum(X, j, n) == IF n = 0 THEN 0 ELSE X[n][j] + ColSum(X, j, n - 1)

RECURSIVE ColSumSq(_, _, _)
ColSumSq(X, j, n) == IF n = 0 THEN 0 ELSE X[n][j] * X[n][j] + ColSumSq(X, j, n - 1)

\* preprocessing.py:16  np.mean(X, axis=0)
Mean(X, j) == [num |-> ColSum(X, j, Len(X)), den |-> Len(X)]

\* preprocessing.py:17  np.std(X, axis=0), the population deviation:
\* sqrt(n*sum(x^2) - sum(x)^2) / n
Std(X, j) ==
    [ sq |-> Len(X) * ColSumSq(X, j, Len(X)) - ColSum(X, j, Len(X)) * ColSum(X, j, Len(X)),
      den |-> Len(X) ]

\* preprocessing.py:18  self.std[self.std == 0] = 1
GuardZero(std) == [j \in DOMAIN std |-> IF std[j].sq = 0 THEN [sq |-> 1, den |-> 1] ELSE std[j]]

\* fit without line 18
MutFit(X) ==
    [ mean |-> [j \in Columns |-> Mean(X, j)],
      std |-> [j \in Columns |-> Std(X, j)],
      fitted |-> TRUE ]

\* preprocessing.py:15-19
fit(X) ==
    [ mean |-> [j \in Columns |-> Mean(X, j)],
      std |-> GuardZero([j \in Columns |-> Std(X, j)]),
      fitted |-> TRUE ]

\* preprocessing.py:22  (X - self.mean) / self.std, elementwise:
\* (x - mn/md) / (sqrt(sq)/sd) = (x*md - mn)*sd / (md*sqrt(sq)); numpy divides
\* by a zero deviation without raising and returns nan or inf, here the
\* value with root 0
Standardize(x, mean, std) ==
    [ num |-> (x * mean.den - mean.num) * std.den, den |-> mean.den, root |-> std.sq ]

\* preprocessing.py:21-22
transform(self, X) ==
    [i \in DOMAIN X |-> [j \in Columns |-> Standardize(X[i][j], self.mean[j], self.std[j])]]

\* preprocessing.py:24-25
fit_transform(X) == transform(fit(X), X)

-----------------------------------------------------------------------------
(* ModelManager.preprocess_input *)

\* main.py:173-175  self.visual_condition_map.get(data.visual_condition, 0)
EncodeVisual(v) ==
    IF v \in DOMAIN visual_condition_map THEN visual_condition_map[v] ELSE 0

\* main.py:178-184
Features(data) ==
    <<data.pH, data.EC, data.water_temp, data.humidity, EncodeVisual(data.visual_condition)>>

\* main.py:190  self.scaler.transform(features): the statistics are those of the
\* generation the scaler was fitted in
Transform(sc, features) == [scaler |-> sc, features |-> features]

\* a scaler refitted by the call that should only have read it
MutAfterTransform(sc) == 0 - sc

\* main.py:190: the call is scaler.transform, not fit_transform; transform
\* (preprocessing.py:21-22) reads mean and std and assigns neither, so the
\* scaler object after the call is the one before it
AfterTransform(sc) == sc

\* main.py:169-194: the scaled features, or the ValueError raised
preprocess_input(data, sc) ==
    IF sc = 0
    THEN [ok |-> FALSE, exc |-> "ValueError", cause |-> "ScalerNotLoaded", X |-> <<>>]
    ELSE [ok |-> TRUE, exc |-> "", cause |-> "", X |-> Transform(sc, Features(data))]

-----------------------------------------------------------------------------
(* ModelManager._generate_recommendations *)

Line(topic, kind, value) == [topic |-> topic, kind |-> kind, value |-> value]

\* main.py:276-282
HealthLines(health_pred) ==
    IF health_pred = 0 THEN <<Line("health", "diseased", 0)>>
    ELSE IF health_pred = 1 THEN <<Line("health", "stressed", 0)>>
    ELSE <<Line("health", "good", 0)>>

\* PhLines with the final else dropped: a pH inside the band gets no line
MutPhLines(data) ==
    IF data.pH < PH_LOW THEN <<Line("pH", "low", data.pH)>>
    ELSE IF data.pH > PH_HIGH THEN <<Line("pH", "high", data.pH)>>
    ELSE <<>>

\* main.py:284-290
PhLines(data) ==
    IF data.pH < PH_LOW THEN <<Line("pH", "low", data.pH)>>
    ELSE IF data.pH > PH_HIGH THEN <<Line("pH", "high", data.pH)>>
    ELSE <<Line("pH", "optimal", data.pH)>>

\* EcLines with the upper comparison made inclusive
MutEcLines(data) ==
    IF data.EC < EC_LOW THEN <<Line("EC", "low", data.EC)>>
    ELSE IF data.EC >= EC_HIGH THEN <<Line("EC", "high", data.EC)>>
    ELSE <<Line("EC", "optimal", data.EC)>>

\* main.py:292-298
EcLines(data) ==
    IF data.EC < EC_LOW THEN <<Line("EC", "low", data.EC)>>
    ELSE IF data.EC > EC_HIGH THEN <<Line("EC", "high", data.EC)>>
    ELSE <<Line("EC", "optimal", data.EC)>>

\* main.py:300-306
TempLines(data) ==
    IF data.water_temp < TEMP_LOW THEN <<Line("water_temp", "low", data.water_temp)>>
    ELSE IF data.water_temp > TEMP_HIGH THEN <<Line("water_temp", "high", data.water_temp)>>
    ELSE <<Line("water_temp", "optimal", data.water_temp)>>

\* HumidityLines with the band edges excluded from the band
MutHumidityLines(data) ==
    IF data.humidity <= HUM_LOW THEN <<Line("humidity", "low", data.humidity)>>
    ELSE IF data.humidity >= HUM_HIGH THEN <<Line("humidity", "high", data.humidity)>>
    ELSE <<Line("humidity", "optimal", data.humidity)>>

\* main.py:308-314
HumidityLines(data) ==
    IF data.humidity < HUM_LOW THEN <<Line("humidity", "low", data.humidity)>>
    ELSE IF data.humidity > HUM_HIGH THEN <<Line("humidity", "high", data.humidity)>>
    ELSE <<Line("humidity", "optimal", data.humidity)>>

\* main.py:316-320: no line at all when the risk is at most 40
DiseaseLines(disease_pred) ==
    IF disease_pred > DISEASE_HIGH THEN <<Line("disease", "high", disease_pred)>>
    ELSE IF disease_pred > DISEASE_MODERATE THEN <<Line("disease", "moderate", disease_pred)>>
    ELSE <<>>

\* main.py:322-330: an if/elif chain with no else
NutrientLines(nutrient_pred) ==
    IF nutrient_pred = 1 THEN <<Line("nutrient", "nitrogen_deficiency", 0)>>
    ELSE IF nutrient_pred = 2 THEN <<Line("nutrient", "toxicity", 0)>>
    ELSE IF nutrient_pred = 3 THEN <<Line("nutrient", "general_deficiency", 0)>>
    ELSE IF nutrient_pred = 4 THEN <<Line("nutrient", "micronutrient_lockout", 0)>>
    ELSE <<>>

\* main.py:270-332
generate_recommendations(data, health_pred, nutrient_pred, disease_pred) ==
    HealthLines(health_pred) \o PhLines(data) \o EcLines(data) \o TempLines(data)
        \o HumidityLines(data) \o DiseaseLines(disease_pred) \o NutrientLines(nutrient_pred)

-----------------------------------------------------------------------------
(* ModelManager.predict *)

\* main.py:334-354: the normalised importances of the health model; all zeros
\* (written 0) when there is no health model
get_feature_importance(mdl) == [of_model |-> mdl["health"]]

\* main.py:229, 252
health_status_map(p) ==
    IF p = 0 THEN "Diseased" ELSE IF p = 1 THEN "Stressed"
    ELSE IF p = 2 THEN "Healthy" ELSE "Unknown"

\* main.py:230, 254
growth_rate_map(p) ==
    IF p = 0 THEN "Low" ELSE IF p = 1 THEN "Moderate"
    ELSE IF p = 2 THEN "High" ELSE "Unknown"

\* main.py:231-237, 256
nutrient_issue_map(p) ==
    IF p = 0 THEN "None" ELSE IF p = 1 THEN "Nitrogen Deficiency"
    ELSE IF p = 2 THEN "Toxicity (High EC)" ELSE IF p = 3 THEN "General Deficiency"
    ELSE IF p = 4 THEN "Micronutrient Lockout" ELSE "Unknown"

\* main.py:239-249: the first interval [min, max) holding the raw prediction;
\* 'Low Risk' when none does
DiseaseLevel(disease_pred) ==
    IF 0 <= disease_pred /\ disease_pred < 30 THEN "Low Risk"
    ELSE IF 30 <= disease_pred /\ disease_pred < 60 THEN "Medium Risk"
    ELSE IF 60 <= disease_pred /\ disease_pred < 100 THEN "High Risk"
    ELSE "Low Risk"

Min2(a, b) == IF a < b THEN a ELSE b
Max2(a, b) == IF a > b THEN a ELSE b

\* Clamp with the lower limit forgotten
MutClamp(x) == Min2(SCORE_MAX, x)

\* main.py:258-259  max(0, min(100, x))
Clamp(x) == Max2(SCORE_MIN, Min2(SCORE_MAX, x))

\* Confidence taken from the health classifier alone
MutConfidenceHealthOnly(raw) == 3 * raw.health_proba

\* Confidence made to depend on when the request is served
MutConfidence(raw) == raw.health_proba + raw.growth_proba + raw.nutrient_proba - clock

\* main.py:218  np.mean of the three class probabilities, in units of 1/300
Confidence(raw) == raw.health_proba + raw.growth_proba + raw.nutrient_proba

\* main.py:217-265: the report built from the raw predictions
BuildReport(data, raw, mdl, now) ==
    [ health_status |-> health_status_map(raw.health_pred),
      health_score |-> raw.health_proba,
      growth_rate |-> growth_rate_map(raw.growth_pred),
      growth_score |-> raw.growth_proba,
      nutrient_issue |-> nutrient_issue_map(raw.nutrient_pred),
      nutrient_score |-> raw.nutrient_proba,
      yield_prediction |-> Clamp(raw.yield_pred),
      disease_risk |-> Clamp(raw.disease_pred),
      disease_risk_level |-> DiseaseLevel(raw.disease_pred),
      recommendations |->
          generate_recommendations(data, raw.health_pred, raw.nutrient_pred, raw.disease_pred),
      feature_importance |-> get_feature_importance(mdl),
      confidence |-> Confidence(raw),
      timestamp |-> now ]

Raise(exc, cause, missing) ==
    [ok |-> FALSE, exc |-> exc, cause |-> cause, missing |-> missing, report |-> {}]

\* main.py:206-210: self.models[target] raises KeyError for the first target, in
\* the order the code reads them, that has no key
MissingTargets(mdl) == {i \in 1..Len(Targets) : mdl[Targets[i]] = 0}
FirstMissing(mdl) ==
    Targets[CHOOSE i \in MissingTargets(mdl) : \A j \in MissingTargets(mdl) : i <= j]

\* ManagerPredict tolerating absent predictors (models.get instead of models[...])
MutManagerPredict(data, mdl, sc, raw, now) ==
    IF \A t \in TargetSet : mdl[t] = 0
    THEN Raise("ValueError", "ModelsNotLoaded", "")
    ELSE IF ~preprocess_input(data, sc).ok
    THEN Raise("ValueError", preprocess_input(data, sc).cause, "scaler")
    ELSE [ok |-> TRUE, exc |-> "", cause |-> "", missing |-> "",
          report |-> {BuildReport(data, raw, mdl, now)}]

\* main.py:196-268: every exception leaves as a ValueError
ManagerPredict(data, mdl, sc, raw, now) ==
    IF \A t \in TargetSet : mdl[t] = 0
    THEN Raise("ValueError", "ModelsNotLoaded", "")
    ELSE IF ~preprocess_input(data, sc).ok
    THEN Raise("ValueError", preprocess_input(data, sc).cause, "scaler")
    ELSE IF MissingTargets(mdl) # {}
    THEN Raise("ValueError", "KeyError", FirstMissing(mdl))
    ELSE [ok |-> TRUE, exc |-> "", cause |-> "", missing |-> "",
          report |-> {BuildReport(data, raw, mdl, now)}]

-----------------------------------------------------------------------------
(* The /predict endpoint *)

Response(status, cause, missing, report) ==
    [status |-> status, cause |-> cause, missing |-> missing, report |-> report]

\* main.py:405-418.  The HTTPException(503) of line 407 is raised inside the
\* try block; it is no ValueError, so `except Exception` (line 417) catches it
\* and raises HTTPException(500) in its place.
PredictRoute(data, mdl, sc, raw, now) ==
    IF \A t \in TargetSet : mdl[t] = 0
    THEN Response(HTTP_INTERNAL, "ModelsNotLoaded", "", {})
    ELSE LET r == ManagerPredict(data, mdl, sc, raw, now) IN
         IF r.ok THEN Response(HTTP_OK, "", "", r.report)
         ELSE Response(HTTP_BAD_REQUEST, r.cause, r.missing, {})

\* main.py:389-390: FastAPI validates the body against PredictionInput before
\* the handler runs and answers 422 when it does not fit
PredictEndpoint(data, mdl, sc, raw, now) ==
    IF ~Validate(data)
    THEN Response(HTTP_UNPROCESSABLE, "ValidationError", "", {})
    ELSE PredictRoute(data, mdl, sc, raw, now)

-----------------------------------------------------------------------------
(* ModelManager.load_models and the retrain task *)

\* main.py:136-148: .pkl first, then .json; a target with neither file keeps
\* whatever self.models held for it
LoadTarget(t, d, mdl) ==
    IF d.pkl[t] # 0 THEN d.pkl[t]
    ELSE IF d.json[t] # 0 THEN d.json[t]
    ELSE mdl[t]

\* main.py:150-155
LoadScaler(d, sc) == IF d.scaler # 0 THEN d.scaler ELSE sc

\* main.py:157-161
LoadMetadata(d, md) == IF d.metadata # 0 THEN d.metadata ELSE md

\* load_models opening the files without the os.path.exists tests
MutLoadRaises(d) ==
    \/ \E t \in TargetSet : d.pkl[t] = 0 /\ d.json[t] = 0
    \/ d.scaler = 0

\* main.py:125-167: absent files are warned about (lines 148, 155), never raised
LoadRaises(d) == FALSE

load_models(d, mdl, sc, md) ==
    [ models |-> [t \in TargetSet |-> LoadTarget(t, d, mdl)],
      scaler |-> LoadScaler(d, sc),
      metadata |-> LoadMetadata(d, md),
      raised |-> LoadRaises(d) ]

\* main.py:475-478: every model is saved as .json, the scaler as scaler.pkl;
\* metadata.json is not rewritten
SaveArtifacts(d, g) ==
    [d EXCEPT !.json = [t \in TargetSet |-> g], !.scaler = g]

-----------------------------------------------------------------------------
(* Inputs *)

Reading(ph, ec, temp, hum, vis) ==
    [pH |-> ph, EC |-> ec, water_temp |-> temp, humidity |-> hum, visual_condition |-> vis]

Raw(hp, gp, np, yp, dp, hpr, gpr, npr) ==
    [ health_pred |-> hp, growth_pred |-> gp, nutrient_pred |-> np,
      yield_pred |-> yp, disease_pred |-> dp,
      health_proba |-> hpr, growth_proba |-> gpr, nutrient_proba |-> npr ]

NoReading == Reading(0, 0, 0, 0, "")
NoRaw == Raw(0, 0, 0, 0, 0, 0, 0, 0)
NoResponse == Response(0, "", "", {})

\* the scenarios of test_api.py:12-32, an unknown visual condition, and an EC
\* between the documented and the coded lower limit
CoreReadings ==
    { Reading(60, 1200, 21, 60, "Healthy"),
      Reading(45, 2200, 28, 75, "Yellowing"),
      Reading(60, 1200, 21, 60, "Purple Spots"),
      Reading(60, 300, 21, 60, "Healthy") }

CoreRaws ==
    { Raw(2, 2, 0, 85, 20, 100, 100, 100),
      Raw(0, 1, 2, 120, 75, 67, 50, 40) }

PhValues == {29, 30, 45, 54, 55, 60, 70, 71, 90, 91}
EcValues == {199, 200, 499, 500, 1199, 1200, 1800, 1801, 2000, 3000, 3001}
TempValues == {4, 5, 17, 18, 21, 24, 25, 40, 41}
HumidityValues == {9, 10, 49, 50, 60, 80, 81, 100, 101}
VisualValues == VisualConditions \cup {"Purple Spots"}

\* class ids of the three classifiers (train_model.py:157-196: num_class 3, 3, 5),
\* raw regressor outputs on both sides of [0, 100], and class probabilities
HealthClasses == 0..2
GrowthClasses == 0..2
NutrientClasses == 0..4
YieldValues == {-5, 50, 120}
DiseaseValues == {-5, 0, 29, 30, 40, 41, 59, 60, 70, 71, 99, 100, 120}
ProbaTriples == { <<34, 34, 20>>, <<67, 50, 40>>, <<100, 100, 100>> }

-----------------------------------------------------------------------------
(* State machine: handlers run one at a time *)

NoModels == [t \in TargetSet |-> 0]
Members == TargetSet \cup {"scaler"}
NoneUsed == [m \in Members |-> {}]
IdleLoad == [at |-> "idle", i |-> 0]
NoLocals == [data |-> NoReading, raw |-> NoRaw, sc |-> 0, reads |-> <<>>]
NoHealth == [status |-> "", models_loaded |-> FALSE, timestamp |-> 0]
NoExchange == [pc |-> "health", scenario |-> "", status |-> 0, fields |-> {}]

\* preprocessing.py:11-13
SimpleScaler == [mean |-> <<>>, std |-> <<>>, fitted |-> FALSE]
NoCall == [call |-> "", X |-> <<>>, out |-> <<>>]

\* what the models directory may hold when the process starts: any subset of
\* the five predictors, as .pkl, as .json or as both, with or without the
\* scaler and the metadata
InitialDisks ==
    { [ pkl |-> [t \in TargetSet |-> IF t \in present /\ fmt \in {"pkl", "both"} THEN 1 ELSE 0],
        json |-> [t \in TargetSet |-> IF t \in present /\ fmt \in {"json", "both"} THEN 1 ELSE 0],
        scaler |-> sc, metadata |-> md ] :
        present \in SUBSET TargetSet, fmt \in {"pkl", "json", "both"},
        sc \in 0..1, md \in 0..1 }

\* the directory train_model.py:320-337 leaves: five .json models, the scaler
\* and the metadata of one training run
TrainedDisk ==
    [ pkl |-> NoModels, json |-> [t \in TargetSet |-> 1], scaler |-> 1, metadata |-> 1 ]

\* main.py:111-123, 358: the state after model_manager = ModelManager()
Constructed(d) ==
    LET l == load_models(d, NoModels, 0, 0) IN
    /\ disk = d
    /\ models = l.models
    /\ scaler = l.scaler
    /\ metadata = l.metadata
    /\ loadRaised = l.raised
    /\ gen = 1
    /\ clock = 0
    /\ req = NoReading
    /\ resp = NoResponse
    /\ oracle = {}
    /\ used = NoneUsed
    /\ repeated = FALSE
    /\ pcLoad = IdleLoad
    /\ health = NoHealth
    /\ client = NoExchange
    /\ simple = SimpleScaler
    /\ lastCall = NoCall

Init ==
    /\ \E d \in InitialDisks : Constructed(d)
    /\ pcReq = "idle"
    /\ xreq = NoLocals

Complete(mdl) == \A t \in TargetSet : mdl[t] # 0

\* whether a request reaches the predictors
Infers(data, mdl, sc) == Validate(data) /\ Complete(mdl) /\ sc # 0

InferenceKey(data, mdl, sc) == [models |-> mdl, X |-> Transform(sc, Features(data))]

\* xgboost inference is a function of the model objects and the input: an
\* inference repeated on the same ones gives the same outputs
Consistent(key, raw) == \A o \in oracle : o.key = key => o.out = raw

UsedBy(mdl, sc) == [m \in Members |-> IF m = "scaler" THEN {sc} ELSE {mdl[m]}]

Now(now) == now \in clock..Min2(clock + 1, MaxClock)

\* a served request is followed by the same request on the same bundle
Repeats(data) ==
    /\ resp.status = HTTP_OK
    /\ data = req
    /\ used = UsedBy(models, scaler)

\* main.py:389-418, the whole /predict handler
Handle(data, raw, now) ==
    /\ Now(now)
    /\ IF Infers(data, models, scaler)
       THEN /\ Consistent(InferenceKey(data, models, scaler), raw)
            /\ oracle' = {[key |-> InferenceKey(data, models, scaler), out |-> raw]}
            /\ used' = UsedBy(models, scaler)
       ELSE /\ raw = NoRaw
            /\ UNCHANGED <<oracle, used>>
    /\ req' = data
    /\ resp' = PredictEndpoint(data, models, scaler, raw, now)
    /\ repeated' = Repeats(data)
    /\ clock' = now
    /\ scaler' = IF Validate(data) /\ models # NoModels /\ preprocess_input(data, scaler).ok
                  THEN AfterTransform(scaler)
                  ELSE scaler
    /\ UNCHANGED <<disk, models, metadata, loadRaised, gen, pcLoad>>

Predict ==
    /\ pcLoad = IdleLoad /\ pcReq = "idle"
    /\ \E d \in CoreReadings, r \in CoreRaws \cup {NoRaw}, now \in 0..MaxClock :
          Handle(d, r, now)
    /\ UNCHANGED <<pcReq, xreq>>
    /\ UNCHANGED <<health, client, simple, lastCall>>

\* main.py:437-483, the whole retrain task
Retrain ==
    /\ pcLoad = IdleLoad /\ pcReq = "idle"
    /\ gen < MaxGen
    /\ LET d == SaveArtifacts(disk, gen + 1)
           l == load_models(d, models, scaler, metadata) IN
       /\ gen' = gen + 1
       /\ disk' = d
       /\ models' = l.models
       /\ scaler' = l.scaler
       /\ metadata' = l.metadata
       /\ loadRaised' = l.raised
    /\ UNCHANGED <<clock, req, resp, oracle, used, repeated, pcLoad, pcReq, xreq>>
    /\ UNCHANGED <<health, client, simple, lastCall>>

Next == Predict \/ Retrain

Spec == Init /\ [][Next]_vars

-----------------------------------------------------------------------------
(* The prediction pipeline as a function of one request: a complete bundle   *)
(* is loaded, the request and the predictors' raw outputs are drawn at the   *)
(* start, and the handler serves it                                          *)

ReceivedReading(d) ==
    /\ Constructed(TrainedDisk)
    /\ pcReq = "received"
    /\ \E r \in CoreRaws : xreq = [NoLocals EXCEPT !.data = d, !.raw = r]

ReceivedRaw(r) ==
    /\ Constructed(TrainedDisk)
    /\ pcReq = "received"
    /\ \E d \in CoreReadings : xreq = [NoLocals EXCEPT !.data = d, !.raw = r]

InitSynth ==
    \/ \E ph \in PhValues, ec \in EcValues, temp \in TempValues,
          hum \in HumidityValues, vis \in VisualValues :
          ReceivedReading(Reading(ph, ec, temp, hum, vis))
    \/ \E hp \in HealthClasses, gp \in GrowthClasses, np \in NutrientClasses,
          yp \in YieldValues, dp \in DiseaseValues, pr \in ProbaTriples :
          ReceivedRaw(Raw(hp, gp, np, yp, dp, pr[1], pr[2], pr[3]))

Serve ==
    /\ pcReq = "received"
    /\ \E now \in 0..MaxClock :
          Handle(xreq.data, IF Infers(xreq.data, models, scaler) THEN xreq.raw ELSE NoRaw, now)
    /\ pcReq' = "idle"
    /\ UNCHANGED xreq
    /\ UNCHANGED <<health, client, simple, lastCall>>

NextSynth == Serve

SpecSynth == InitSynth /\ [][NextSynth]_vars

-----------------------------------------------------------------------------
(* test_api.py against the API: the script asks /health, then posts its      *)
(* three scenarios to /predict and reads the fields of each result           *)

\* main.py:31-37: every field is declared with Field(...), i.e. required
RequiredFields == {"pH", "EC", "water_temp", "humidity", "visual_condition"}

\* main.py:51-65
PredictionOutput ==
    [ health_status |-> "str", health_score |-> "float",
      growth_rate |-> "str", growth_score |-> "float",
      nutrient_issue |-> "str", nutrient_score |-> "float",
      yield_prediction |-> "float", disease_risk |-> "float",
      disease_risk_level |-> "str", recommendations |-> "List[str]",
      feature_importance |-> "Dict[str, float]", confidence |-> "float",
      timestamp |-> "str" ]

\* test_api.py:11-33
Scenarios == <<"Optimal", "Stressed", "Low pH">>
test_inputs ==
    "Optimal" :> [ph_value |-> 60, ec_value |-> 1200, water_temperature |-> 21,
                  air_humidity |-> 60, visual_condition |-> "Healthy"]
    @@ "Stressed" :> [ph_value |-> 45, ec_value |-> 2200, water_temperature |-> 28,
                      air_humidity |-> 75, visual_condition |-> "Yellowing"]
    @@ "Low pH" :> [ph_value |-> 40, ec_value |-> 1000, water_temperature |-> 20,
                    air_humidity |-> 55, visual_condition |-> "Yellowing"]

\* main.py:393-402, the request the route documents
ExampleBody ==
    [pH |-> 65, EC |-> 1500, water_temp |-> 22, humidity |-> 65, visual_condition |-> "Healthy"]

\* main.py:390: FastAPI builds the PredictionInput from the JSON body; a body
\* without a required field does not validate, keys the schema does not
\* declare are ignored
ParseInput(body) ==
    IF RequiredFields \subseteq DOMAIN body
    THEN [ok |-> TRUE,
          data |-> Reading(body.pH, body.EC, body.water_temp, body.humidity,
                           body.visual_condition)]
    ELSE [ok |-> FALSE, data |-> NoReading]

\* main.py:389-418 for a JSON body: a body that does not parse is answered 422
\* and the handler does not run
Post(body, raw, now) ==
    IF ParseInput(body).ok
    THEN Handle(ParseInput(body).data, raw, now)
    ELSE /\ raw = NoRaw /\ now = clock
         /\ req' = NoReading
         /\ resp' = Response(HTTP_UNPROCESSABLE, "ValidationError", "", {})
         /\ repeated' = FALSE
         /\ UNCHANGED <<disk, models, scaler, metadata, loadRaised, gen, clock,
                        oracle, used, pcLoad>>

\* the keys of the JSON the client receives: the report filtered through
\* response_model=PredictionOutput (main.py:389), or the error's detail
ResultFields(response) ==
    IF response.report = {} THEN {"detail"}
    ELSE UNION {DOMAIN r \cap DOMAIN PredictionOutput : r \in response.report}

NextScenario(pc) ==
    IF pc = "health" THEN Scenarios[1]
    ELSE IF \E i \in 1..(Len(Scenarios) - 1) : Scenarios[i] = pc
    THEN Scenarios[(CHOOSE i \in 1..(Len(Scenarios) - 1) : Scenarios[i] = pc) + 1]
    ELSE "done"

\* main.py:365-372, the whole /health handler: models_loaded is
\* len(model_manager.models) > 0; the timestamp is the clock as it stands
Health ==
    /\ health' = [status |-> "healthy",
                  models_loaded |-> (\E t \in TargetSet : models[t] # 0),
                  timestamp |-> clock]
    /\ UNCHANGED <<disk, models, scaler, metadata, loadRaised, gen, clock, req, resp,
                   oracle, used, repeated, pcLoad, pcReq, xreq, simple, lastCall>>

\* test_api.py:38-47
ClientHealth ==
    /\ client.pc = "health"
    /\ Health
    /\ client' = [client EXCEPT !.pc = NextScenario(client.pc)]

\* test_api.py:55-95, one iteration of the loop
ClientPost ==
    /\ client.pc \in DOMAIN test_inputs
    /\ \E raw \in CoreRaws \cup {NoRaw}, now \in 0..MaxClock :
          Post(test_inputs[client.pc], raw, now)
    /\ client' = [pc |-> NextScenario(client.pc), scenario |-> client.pc,
                  status |-> resp'.status, fields |-> ResultFields(resp')]
    /\ UNCHANGED <<pcReq, xreq, health, simple, lastCall>>

\* a request as the route documents it, from any other client
ExamplePost ==
    /\ \E raw \in CoreRaws \cup {NoRaw}, now \in 0..MaxClock :
          Post(ExampleBody, raw, now)
    /\ UNCHANGED <<pcReq, xreq, health, client, simple, lastCall>>

NextClient == ClientHealth \/ ClientPost \/ ExamplePost

SpecClient == Init /\ [][NextClient]_vars

-----------------------------------------------------------------------------
(* A SimpleScaler object: fitted once on a training matrix, by fit or by     *)
(* fit_transform, then used to transform single samples, as main.py does     *)
(* with its scaler (fitted at training, transform at request time)           *)

Rows == [Columns -> 0..MaxVal]

FitStep ==
    /\ ~simple.fitted
    /\ \E n \in 1..MaxRows : \E X \in [1..n -> Rows] :
          /\ simple' = fit(X)
          /\ lastCall' = [call |-> "fit", X |-> X, out |-> <<>>]
    /\ UNCHANGED <<disk, models, scaler, metadata, loadRaised, gen, clock, req, resp,
                   oracle, used, repeated, pcLoad, pcReq, xreq, health, client>>

FitTransformStep ==
    /\ ~simple.fitted
    /\ \E n \in 1..MaxRows : \E X \in [1..n -> Rows] :
          /\ simple' = fit(X)
          /\ lastCall' = [call |-> "fit_transform", X |-> X, out |-> fit_transform(X)]
    /\ UNCHANGED <<disk, models, scaler, metadata, loadRaised, gen, clock, req, resp,
                   oracle, used, repeated, pcLoad, pcReq, xreq, health, client>>

TransformStep ==
    /\ simple.fitted
    /\ \E X \in [1..1 -> Rows] :
          lastCall' = [call |-> "transform", X |-> X, out |-> transform(simple, X)]
    /\ UNCHANGED <<disk, models, scaler, metadata, loadRaised, gen, clock, req, resp,
                   oracle, used, repeated, pcLoad, pcReq, xreq, health, client, simple>>

InitScaler ==
    /\ Constructed(TrainedDisk)
    /\ pcReq = "idle"
    /\ xreq = NoLocals

NextScaler == FitStep \/ FitTransformStep \/ TransformStep

SpecScaler == InitScaler /\ [][NextScaler]_vars

-----------------------------------------------------------------------------
(* The retrain task beside the event loop.  retrain_task is a plain function *)
(* (main.py:437), so the background task runs it in a worker thread while    *)
(* the event loop goes on serving /predict: the steps of the two interleave. *)

At(a, i) == [at |-> a, i |-> i]

\* main.py:206-215: the order in which predict reads self.models
ReadOrder ==
    <<"health", "growth", "nutrient", "yield", "disease", "health", "growth", "nutrient">>

\* main.py:439-469: the training run
RetrainStart ==
    /\ pcLoad = IdleLoad
    /\ gen < MaxGen
    /\ gen' = gen + 1
    /\ pcLoad' = At("save", 1)
    /\ UNCHANGED <<disk, models, scaler, metadata, loadRaised, clock, req, resp,
                   oracle, used, repeated, pcReq, xreq>>
    /\ UNCHANGED <<health, client, simple, lastCall>>

\* main.py:475-476
SaveModel ==
    /\ pcLoad.at = "save"
    /\ disk' = [disk EXCEPT !.json[Targets[pcLoad.i]] = gen]
    /\ pcLoad' = IF pcLoad.i < Len(Targets) THEN At("save", pcLoad.i + 1) ELSE At("dump", 0)
    /\ UNCHANGED <<models, scaler, metadata, loadRaised, gen, clock, req, resp,
                   oracle, used, repeated, pcReq, xreq>>
    /\ UNCHANGED <<health, client, simple, lastCall>>

\* main.py:478
DumpScaler ==
    /\ pcLoad.at = "dump"
    /\ disk' = [disk EXCEPT !.scaler = gen]
    /\ pcLoad' = At("load", 1)
    /\ UNCHANGED <<models, scaler, metadata, loadRaised, gen, clock, req, resp,
                   oracle, used, repeated, pcReq, xreq>>
    /\ UNCHANGED <<health, client, simple, lastCall>>

\* main.py:131-148, one iteration of the loop
LoadModelStep ==
    /\ pcLoad.at = "load"
    /\ models' = [models EXCEPT ![Targets[pcLoad.i]] = LoadTarget(Targets[pcLoad.i], disk, models)]
    /\ pcLoad' = IF pcLoad.i < Len(Targets) THEN At("load", pcLoad.i + 1) ELSE At("scaler", 0)
    /\ UNCHANGED <<disk, scaler, metadata, loadRaised, gen, clock, req, resp,
                   oracle, used, repeated, pcReq, xreq>>
    /\ UNCHANGED <<health, client, simple, lastCall>>

\* main.py:150-155
LoadScalerStep ==
    /\ pcLoad.at = "scaler"
    /\ scaler' = LoadScaler(disk, scaler)
    /\ pcLoad' = At("metadata", 0)
    /\ UNCHANGED <<disk, models, metadata, loadRaised, gen, clock, req, resp,
                   oracle, used, repeated, pcReq, xreq>>
    /\ UNCHANGED <<health, client, simple, lastCall>>

\* main.py:157-167
LoadMetadataStep ==
    /\ pcLoad.at = "metadata"
    /\ metadata' = LoadMetadata(disk, metadata)
    /\ loadRaised' = LoadRaises(disk)
    /\ pcLoad' = IdleLoad
    /\ UNCHANGED <<disk, models, scaler, gen, clock, req, resp, oracle, used, repeated, pcReq, xreq>>
    /\ UNCHANGED <<health, client, simple, lastCall>>

Answer(data, response) ==
    /\ req' = data
    /\ resp' = response
    /\ pcReq' = "idle"
    /\ xreq' = NoLocals

\* main.py:389-410: validation, then the `if not model_manager.models` of the
\* route (the same test at line 199 follows at once)
ReqStart ==
    /\ pcReq = "idle"
    /\ \E d \in CoreReadings :
          IF ~Validate(d) \/ \A t \in TargetSet : models[t] = 0
          THEN /\ Answer(d, PredictEndpoint(d, models, scaler, NoRaw, clock))
          ELSE /\ pcReq' = "scale"
               /\ xreq' = [NoLocals EXCEPT !.data = d]
               /\ UNCHANGED <<req, resp>>
    /\ UNCHANGED <<disk, models, scaler, metadata, loadRaised, gen, clock, oracle, used, repeated, pcLoad>>
    /\ UNCHANGED <<health, client, simple, lastCall>>

\* main.py:187-190: reads self.scaler
ReqScale ==
    /\ pcReq = "scale"
    /\ IF scaler = 0
       THEN Answer(xreq.data, Response(HTTP_BAD_REQUEST, "ScalerNotLoaded", "scaler", {}))
       ELSE /\ xreq' = [xreq EXCEPT !.sc = scaler]
            /\ pcReq' = "read"
            /\ UNCHANGED <<req, resp>>
    /\ scaler' = IF scaler = 0 THEN scaler ELSE AfterTransform(scaler)
    /\ UNCHANGED <<disk, models, metadata, loadRaised, gen, clock, oracle, used, repeated, pcLoad>>
    /\ UNCHANGED <<health, client, simple, lastCall>>

\* main.py:206-215: one read of self.models[target]
ReqRead ==
    /\ pcReq = "read"
    /\ LET t == ReadOrder[Len(xreq.reads) + 1] IN
       IF models[t] = 0
       THEN Answer(xreq.data, Response(HTTP_BAD_REQUEST, "KeyError", t, {}))
       ELSE /\ xreq' = [xreq EXCEPT !.reads = Append(@, models[t])]
            /\ pcReq' = IF Len(xreq.reads) + 1 < Len(ReadOrder) THEN "read" ELSE "finish"
            /\ UNCHANGED <<req, resp>>
    /\ UNCHANGED <<disk, models, scaler, metadata, loadRaised, gen, clock, oracle, used, repeated, pcLoad>>
    /\ UNCHANGED <<health, client, simple, lastCall>>

ReadsOf(m, reads) == {reads[i] : i \in {j \in 1..Len(reads) : ReadOrder[j] = m}}

\* main.py:217-265, 413
ReqFinish ==
    /\ pcReq = "finish"
    /\ \E raw \in CoreRaws, now \in 0..MaxClock :
          /\ Now(now)
          /\ Answer(xreq.data, Response(HTTP_OK, "", "", {BuildReport(xreq.data, raw, models, now)}))
          /\ clock' = now
    /\ used' = [m \in Members |-> IF m = "scaler" THEN {xreq.sc} ELSE ReadsOf(m, xreq.reads)]
    /\ UNCHANGED <<disk, models, scaler, metadata, loadRaised, gen, oracle, repeated, pcLoad>>
    /\ UNCHANGED <<health, client, simple, lastCall>>

InitRace ==
    /\ Constructed(TrainedDisk)
    /\ pcReq = "idle"
    /\ xreq = NoLocals

NextRace ==
    \/ RetrainStart \/ SaveModel \/ DumpScaler
    \/ LoadModelStep \/ LoadScalerStep \/ LoadMetadataStep
    \/ ReqStart \/ ReqScale \/ ReqRead \/ ReqFinish

SpecRace == InitRace /\ [][NextRace]_vars

-----------------------------------------------------------------------------
(* Properties *)

Answered == resp.status # 0
Served == resp.status = HTTP_OK
UnavailableCauses == {"ModelsNotLoaded", "ScalerNotLoaded", "KeyError"}

\* self.models only gains keys and self.scaler is never reset (load_models
\* never deletes), so a bundle that lacks a member now lacked it when the last
\* request was handled
Lacking == ~Complete(models)

\* C1: when the loaded bundle lacks any of the five predictors, a request that
\* passes validation fails as a whole: the answer is an error caused by the
\* absent member and carries no report, whichever predictors are missing
\* (none loaded included)
C1_PartialBundleFailsWhole ==
    (Answered /\ Validate(req) /\ Lacking) =>
        /\ ~Served
        /\ resp.report = {}
        /\ resp.cause \in UnavailableCauses

\* C1 witness: a valid request answered on a bundle that holds some predictors
\* and lacks others, the scaler being loaded
C1_Witness ==
    /\ Answered /\ Validate(req) /\ Lacking
    /\ scaler # 0
    /\ models["health"] # 0
    /\ resp.cause = "KeyError"

\* C2 (as claimed): a request whose visual condition is outside the vocabulary
\* is answered with an error and no report
C2_UnknownCategoryRejected ==
    (Answered /\ req.visual_condition \notin VisualConditions) =>
        ~Served /\ resp.report = {}

\* C3 (as claimed): every served prediction read its five predictors and its
\* scaler from one bundle generation
C3_ReloadIsAtomic ==
    Served => Cardinality(UNION {used[m] : m \in Members}) = 1

InDeclaredDomain(data) ==
    /\ data.pH >= 30 /\ data.pH <= 90
    /\ data.EC >= 200 /\ data.EC <= 3000
    /\ data.water_temp >= 5 /\ data.water_temp <= 40
    /\ data.humidity >= 10 /\ data.humidity <= 100
    /\ data.visual_condition \in VisualConditions

\* C5 (as claimed): a reading is accepted by validation exactly when it lies in
\* the declared domain (pH 3.0-9.0, EC 200-3000, temperature 5-40, humidity
\* 10-100, one of the five visual conditions)
C5_ValidationIsDeclaredDomain ==
    Answered => ((resp.status # HTTP_UNPROCESSABLE) <=> InDeclaredDomain(req))

\* C6 (as claimed): model unavailability is reported as a failure distinct
\* from a validation failure and never as a generic 500; when no model is
\* loaded the caller receives the 503 the route raises
C6_UnavailabilityIsDistinct ==
    (Answered /\ resp.cause \in UnavailableCauses) =>
        /\ resp.status \notin {HTTP_UNPROCESSABLE, HTTP_INTERNAL}
        /\ (resp.cause = "ModelsNotLoaded" => resp.status = HTTP_UNAVAILABLE)

\* C7: load_models never raises because a member is absent: whatever subset of
\* the model files and the scaler file is on disk, it completes, exactly the
\* members with a file are loaded, and the gap shows only as the error a later
\* valid prediction request gets
C7_LoadToleratesAbsence ==
    /\ ~loadRaised
    /\ \A t \in TargetSet : (models[t] # 0) <=> (disk.pkl[t] # 0 \/ disk.json[t] # 0)
    /\ (scaler # 0) <=> (disk.scaler # 0)
    /\ (Answered /\ Validate(req) /\ (Lacking \/ scaler = 0)) => ~Served

\* C7 witness: a partial bundle (some predictors loaded, some not, no scaler)
\* was loaded without raising and a valid request then got an error
C7_Witness ==
    /\ ~loadRaised
    /\ Lacking /\ scaler = 0
    /\ \E t \in TargetSet : models[t] # 0
    /\ Answered /\ Validate(req) /\ ~Served

\* C8 (as claimed): a request repeated on the same bundle gets a report
\* identical in every field
C8_IdenticalInEveryField ==
    [][(Repeats(req') /\ resp'.status = HTTP_OK) => resp' = resp]_vars

Untimed(report) == [report EXCEPT !.timestamp = 0]

\* C8 (amended): a request repeated on the same bundle gets a report identical
\* in every field other than the timestamp
C8_SameReportButTimestamp ==
    [][(Repeats(req') /\ resp'.status = HTTP_OK) =>
        {Untimed(r) : r \in resp'.report} = {Untimed(r) : r \in resp.report}]_vars

\* C8 witness: a served request repeated the one before it, later on the clock
C8_Witness == repeated /\ Served /\ clock > 0

EnvTopics == {"pH", "EC", "water_temp", "humidity"}
LinesOn(report, topic) ==
    {i \in DOMAIN report.recommendations : report.recommendations[i].topic = topic}
ValueOf(data, topic) ==
    CASE topic = "pH" -> data.pH
      [] topic = "EC" -> data.EC
      [] topic = "water_temp" -> data.water_temp
      [] topic = "humidity" -> data.humidity

\* C9: the recommendations of every report hold exactly four environmental
\* lines, one for each of pH, EC, water temperature and humidity, each a
\* too-low warning, a too-high warning or an optimal confirmation about the
\* value of the reading
C9_OneLinePerDimension ==
    \A r \in resp.report : \A topic \in EnvTopics :
        /\ Cardinality(LinesOn(r, topic)) = 1
        /\ \A i \in LinesOn(r, topic) :
              /\ r.recommendations[i].kind \in {"low", "high", "optimal"}
              /\ r.recommendations[i].value = ValueOf(req, topic)

\* C9 witness: a report whose four lines mix a warning of each kind with
\* optimal confirmations
C9_Witness ==
    /\ Served
    /\ req.pH < PH_LOW /\ req.EC > EC_HIGH
    /\ req.water_temp >= TEMP_LOW /\ req.water_temp <= TEMP_HIGH
    /\ req.humidity = HUM_HIGH

\* C10 (as claimed): the nutrient recommendations of a report are never empty:
\* with no nutrient issue detected there is exactly one 'all nutrient levels
\* optimal' line, and otherwise at least one nutrient line
C10_NutrientLinesNeverEmpty ==
    \A r \in resp.report :
        /\ Cardinality(LinesOn(r, "nutrient")) >= 1
        /\ r.nutrient_issue = "None" =>
              /\ Cardinality(LinesOn(r, "nutrient")) = 1
              /\ \A i \in LinesOn(r, "nutrient") : r.recommendations[i].kind = "optimal"

KindOn(report, topic) ==
    {report.recommendations[i].kind : i \in LinesOn(report, topic)}

OptimalReading == Reading(60, 1200, 21, 60, "Healthy")

InOptimalBands(data) ==
    /\ data.pH >= 55 /\ data.pH <= 70
    /\ data.EC >= 1200 /\ data.EC <= 1800
    /\ data.water_temp >= 18 /\ data.water_temp <= 24
    /\ data.humidity >= 50 /\ data.humidity <= 80

\* C13: for every reading with pH in [5.5, 7.0], EC in [1200, 1800],
\* temperature in [18, 24] and humidity in [50, 80], edges included, all four
\* environmental lines are optimal confirmations and none is a warning
C13_AllOptimalInsideBands ==
    \A r \in resp.report :
        InOptimalBands(req) => \A topic \in EnvTopics : KindOn(r, topic) = {"optimal"}

\* C13 witness: a report for a reading on the edge of every band
C13_Witness ==
    /\ Served
    /\ req.pH = 55 /\ req.EC = 1800 /\ req.water_temp = 18 /\ req.humidity = 80

\* C18 (as claimed): the risk level agrees with the reported disease_risk:
\* 'Low Risk' below 30, 'Medium Risk' from 30 to below 60, 'High Risk' from 60
C18_LevelAgreesWithRisk ==
    \A r \in resp.report :
        r.disease_risk_level =
            IF r.disease_risk < 30 THEN "Low Risk"
            ELSE IF r.disease_risk < 60 THEN "Medium Risk"
            ELSE "High Risk"

\* C19 (as claimed): once a retrain task has completed, the bundle in memory
\* is the five predictors and the scaler of the latest training run, and no
\* prediction served on it combines an older predictor with that scaler
C19_RetrainInstallsNewBundle ==
    gen > 1 =>
        /\ \A t \in TargetSet : models[t] = gen
        /\ scaler = gen
        /\ (Served /\ used["scaler"] = {gen}) => \A t \in TargetSet : used[t] = {gen}

\* C20 (as claimed): whenever /health has reported models_loaded = true, all
\* five predictors and the scaler are loaded, so that a valid request cannot
\* fail for lack of a bundle member
C20_LoadedMeansCompleteBundle ==
    health.models_loaded => (Complete(models) /\ scaler # 0)

\* the fields test_api.py:72-91 reads from a result
TestReadFields ==
    { "health_score", "growth_score", "yield_score", "plant_health_status",
      "growth_rate", "confidence_score", "disease_risk",
      "nutrient_recommendations", "environmental_recommendations" }

\* C15 (as claimed): each request of the test client, which carries the keys
\* ph_value, ec_value, water_temperature, air_humidity, visual_condition with
\* in-range values, is answered 200 and the result holds every field the
\* test reads
C15_TestRequestsServed ==
    client.scenario \in DOMAIN test_inputs =>
        /\ client.status = HTTP_OK
        /\ TestReadFields \subseteq client.fields

\* C14 (as claimed): a successful report carries disease_risk as a mapping
\* from disease name to risk, and the risk values lie in [0, 1]
C14_PerDiseaseRiskInUnitRange ==
    \A r \in resp.report :
        /\ PredictionOutput.disease_risk = "Dict[str, float]"
        /\ r.disease_risk >= 0 /\ r.disease_risk <= 1

\* C17: serving a predict request, whether it succeeds or fails, leaves the
\* bundle unchanged: the loaded predictors, the scaler (never refitted at
\* request time), the metadata and the files on disk are the same after the
\* request as before, for every request of every sequence
C17_PredictLeavesBundle ==
    [][Predict => UNCHANGED <<models, scaler, metadata, disk, loadRaised>>]_vars

\* C17 witness: a request served after a retrain, the retrained bundle with
\* its scaler and its metadata still loaded
C17_Witness ==
    /\ Served /\ gen > 1
    /\ Complete(models) /\ scaler = gen /\ metadata # 0

IsConstant(X, j) == \A i \in DOMAIN X : X[i][j] = X[1][j]

\* sum over the rows of (n*x - sum(x))^2, i.e. n^2 times the sum of the
\* squared distances to the mean
RECURSIVE Spread(_, _, _)
Spread(X, j, n) ==
    IF n = 0 THEN 0
    ELSE (Len(X) * X[n][j] - ColSum(X, j, Len(X))) * (Len(X) * X[n][j] - ColSum(X, j, Len(X)))
         + Spread(X, j, n - 1)

\* C16: fit captures, per dimension, the mean and the population standard
\* deviation of the training set, a dimension whose deviation is zero is given
\* deviation 1, no fitted deviation is zero, and transform returns
\* (x - mean) / std with those statistics, never dividing by zero, for every
\* training set (a single row and constant columns included)
C16_StandardizesWithoutZeroDivision ==
    /\ simple.fitted =>
          \A j \in Columns : simple.std[j].sq > 0 /\ simple.std[j].den > 0
    /\ lastCall.call \in {"fit", "fit_transform"} =>
          \A j \in Columns :
              /\ simple.mean[j].num = ColSum(lastCall.X, j, Len(lastCall.X))
              /\ simple.mean[j].den = Len(lastCall.X)
              /\ IF IsConstant(lastCall.X, j)
                 THEN simple.std[j] = [sq |-> 1, den |-> 1]
                 ELSE /\ simple.std[j].den = Len(lastCall.X)
                      /\ simple.std[j].sq * Len(lastCall.X) = Spread(lastCall.X, j, Len(lastCall.X))
    /\ lastCall.call \in {"transform", "fit_transform"} =>
          \A i \in DOMAIN lastCall.out : \A j \in Columns :
              LET z == lastCall.out[i][j] IN
              /\ z.root > 0 /\ z.den > 0
              /\ z.root = simple.std[j].sq
              /\ z.num * simple.mean[j].den
                    = (lastCall.X[i][j] * simple.mean[j].den - simple.mean[j].num)
                      * z.den * simple.std[j].den

\* C16 witness: a sample transformed by a scaler fitted on a training set
\* with a constant dimension, whose deviation is therefore 1
C16_Witness ==
    /\ lastCall.call = "transform"
    /\ simple.std[1] = [sq |-> 1, den |-> 1]
    /\ simple.mean[1].den > 1
    /\ simple.std[2].sq > 1
    /\ lastCall.out[1][1].num # 0

====
